---- MODULE Spec2Model ----
(***************************************************************************)
(* Fraud-Detection-Dashboard, python-backend/app.py.                       *)
(*                                                                         *)
(* The two request handlers, update_output (the Dash callback) and         *)
(* predict_csv (the Flask route), over the frozen artifacts model, scaler  *)
(* and expected_columns.                                                   *)
(*                                                                         *)
(* Numbers.  Probabilities are integers in hundredths (0.7 is 70, the bin  *)
(* edge -0.01 is -1).  A cell of an uploaded table is a natural number, or *)
(* Text: a cell that read_csv kept as a string because it is no number.    *)
(* A Date is a day number since the epoch, or NaT.  A mean is kept as the  *)
(* pair (sum, count); count 0 is pandas' NaN.                              *)
(***************************************************************************)
EXTENDS Integers, Sequences, FiniteSets, TLC

VARIABLES
    model,              \* app.py:33  the classifier artifact
    scaler,             \* app.py:34  the scaler artifact
    expected_columns,   \* app.py:35  the feature schema artifact
    request,            \* the call being served: its handler and its input
    response,           \* what the handler returned
    frames              \* the local variables of the requests in flight

vars == <<model, scaler, expected_columns, request, response, frames>>

(***************************************************************************)
(* Bounds of the model.                                                    *)
(***************************************************************************)
MaxRows == 2        \* rows of an uploaded table
MaxScored == 6      \* rows of a scored table handed to the top-risk ranking

(***************************************************************************)
(* Values of cells.                                                        *)
(***************************************************************************)
Text == -1          \* a non-numeric cell
NaT == -1           \* a Date that could not be converted
SecondsPerDay == 86400

Min(a, b) == IF a < b THEN a ELSE b
Max(a, b) == IF a > b THEN a ELSE b

RECURSIVE SumSeq(_)
SumSeq(s) == IF s = <<>> THEN 0 ELSE Head(s) + SumSeq(Tail(s))

Range(s) == {s[i] : i \in 1..Len(s)}

(***************************************************************************)
(* The artifacts loaded at import time.  The pickles are not part of the   *)
(* source; the handlers work with whatever they hold, so the model draws   *)
(* them from a set of instances: a schema that holds neither Amount nor    *)
(* Time, one that holds Amount, one that holds both.  The scaler subtracts *)
(* a stored mean per feature position; the classifier is linear in the     *)
(* scaled features, with a stored table from score to label and to         *)
(* probability.                                                            *)
(***************************************************************************)
Artifacts ==
    { [expected_columns |-> <<"V1", "V2">>,
       scaler |-> [mean_ |-> <<0, 0>>],
       model |-> [coef_ |-> <<1, 1>>,
                  predict |-> <<0, 1, 1>>,
                  predict_proba |-> <<20, 90, 90>>]],
      [expected_columns |-> <<"V1", "V2", "Amount">>,
       scaler |-> [mean_ |-> <<0, 1, 50>>],
       model |-> [coef_ |-> <<1, 1, 1>>,
                  predict |-> <<0, 1, 1, 1>>,
                  predict_proba |-> <<50, 70, 95, 100>>]],
      [expected_columns |-> <<"Time", "V1", "V2", "Amount">>,
       scaler |-> [mean_ |-> <<0, 0, 0, 0>>],
       model |-> [coef_ |-> <<0, 1, 1, 0>>,
                  predict |-> <<0, 1, 1>>,
                  predict_proba |-> <<20, 70, 90>>]] }

(***************************************************************************)
(* Tables (pandas DataFrame): the column labels in order, and the rows,    *)
(* each a function from column label to value.                             *)
(***************************************************************************)
HasCol(df, c) == c \in Range(df.columns)

NRows(df) == Len(df.rows)

Column(df, c) == [r \in 1..NRows(df) |-> df.rows[r][c]]

\* df[c] = v with a scalar v: a new column goes last, an old one is overwritten.
SetScalar(df, c, v) ==
    [columns |-> IF HasCol(df, c) THEN df.columns ELSE Append(df.columns, c),
     rows |-> [r \in 1..NRows(df) |->
                 [k \in DOMAIN df.rows[r] \cup {c} |->
                     IF k = c THEN v ELSE df.rows[r][k]]]]

\* df[c] = vals with one value per row.
SetColumn(df, c, vals) ==
    [columns |-> IF HasCol(df, c) THEN df.columns ELSE Append(df.columns, c),
     rows |-> [r \in 1..NRows(df) |->
                 [k \in DOMAIN df.rows[r] \cup {c} |->
                     IF k = c THEN vals[r] ELSE df.rows[r][k]]]]

(***************************************************************************)
(* The uploads.  The headers cover: no optional column at all, the schema  *)
(* columns out of order with Amount, a missing feature with Amount and     *)
(* Class, Time with everything the widest schema names, Time without       *)
(* Amount.                                                                 *)
(***************************************************************************)
Headers ==
    { <<"V1", "V2">>,
      <<"V2", "V1", "Amount">>,
      <<"V1", "Amount", "Class">>,
      <<"Time", "V1", "V2", "Amount">>,
      <<"Time", "V1">> }

CellValues(c) ==
    CASE c = "V1" -> {0, 1}
      [] c = "V2" -> {1}
      [] c = "Amount" -> {50, 100}
      [] c = "Class" -> {0, 1, 2}
      [] c = "Time" -> {0, 2 * SecondsPerDay + 3600, Text}

RowsOf(h) ==
    {row \in [Range(h) -> UNION {CellValues(c) : c \in Range(h)}] :
        \A c \in Range(h) : row[c] \in CellValues(c)}

TablesOf(h) ==
    {[columns |-> h, rows |-> rs] :
        rs \in UNION {[1..n -> RowsOf(h)] : n \in 1..MaxRows}}

Tables == UNION {TablesOf(h) : h \in Headers}

(***************************************************************************)
(* Schema reconciliation, app.py:102-107 and app.py:256-260.               *)
(***************************************************************************)
\* for col in expected_columns: if col not in df.columns: df[col] = 0
RECURSIVE FillMissing(_, _)
FillMissing(df, cols) ==
    IF cols = <<>> THEN df
    ELSE FillMissing(IF HasCol(df, Head(cols)) THEN df
                     ELSE SetScalar(df, Head(cols), 0),
                     Tail(cols))

\* df[expected_columns] raises KeyError when a label is not a column.
SelectRaises(df, cols) == \E i \in 1..Len(cols) : ~HasCol(df, cols[i])

\* The schema columns picked in the table's own column order.
SelectInTableOrder(df, cols) ==
    LET kept == SelectSeq(df.columns, LAMBDA c : c \in Range(cols))
    IN  [columns |-> kept,
         rows |-> [r \in 1..NRows(df) |-> [i \in 1..Len(kept) |-> df.rows[r][kept[i]]]]]

\* X_new = df[expected_columns]: the named columns, in the order named.
\* The matrix is positional from here on: row r is a sequence.
Select(df, cols) ==
    [columns |-> cols,
     rows |-> [r \in 1..NRows(df) |-> [i \in 1..Len(cols) |-> df.rows[r][cols[i]]]]]

(***************************************************************************)
(* Scoring, app.py:110-114 and app.py:261-264.                             *)
(***************************************************************************)
\* scaler.transform raises on a cell that is no number and on a matrix whose
\* width is not the width the scaler was fitted on.
TransformRaises(sc, X) ==
    \/ Len(X.columns) # Len(sc.mean_)
    \/ \E r \in 1..NRows(X) : \E i \in 1..Len(X.columns) : X.rows[r][i] = Text

\* scaler.transform: the stored per-position mean is subtracted.
Transform(sc, X) ==
    [r \in 1..NRows(X) |-> [i \in 1..Len(sc.mean_) |-> X.rows[r][i] - sc.mean_[i]]]

\* The decision score of one scaled row, clipped to the classifier's table.
Score(m, x) ==
    Min(Len(m.predict) - 1,
        Max(0, SumSeq([i \in 1..Len(m.coef_) |-> m.coef_[i] * x[i]])))

\* model.predict(X_new_scaled)
Predict(m, Xs) == [r \in 1..Len(Xs) |-> m.predict[Score(m, Xs[r]) + 1]]

\* model.predict_proba(X_new_scaled)[:, 1]
PredictProba(m, Xs) == [r \in 1..Len(Xs) |-> m.predict_proba[Score(m, Xs[r]) + 1]]

(***************************************************************************)
(* Risk tiers, app.py:120-123.  pd.cut with right=True (the default):      *)
(* value x lies in bin i when bins[i] < x <= bins[i+1]; pandas finds i as  *)
(* searchsorted(bins, x, side='left'), and i = 0 or i = len(bins) is a     *)
(* missing value.                                                          *)
(***************************************************************************)
bins == <<-1, 50, 70, 90, 100>>

\* The label list with two tiers exchanged.
labelsSwapped == <<"Safe", "Medium Risk", "Low Risk", "High Risk">>

labels == <<"Safe", "Low Risk", "Medium Risk", "High Risk">>

Missing == "NaN"

\* searchsorted(bins, x, side='right'): what right=False would use.
SearchSortedRight(b, x) == Cardinality({i \in 1..Len(b) : b[i] <= x})

SearchSortedLeft(b, x) == Cardinality({i \in 1..Len(b) : b[i] < x})

Cut(x, b, l) ==
    LET i == SearchSortedLeft(b, x)
    IN  IF i = 0 \/ i = Len(b) THEN Missing ELSE l[i]

RiskLevel(p) == Cut(p, bins, labels)

(***************************************************************************)
(* update_output, app.py:94-238.                                           *)
(***************************************************************************)
PredictionLabel(p) == IF p = 0 THEN "Not Fraudulent" ELSE "Potentially Fraudulent"

\* app.py:117-123: the four columns added to the request's table.
Annotate(df, X_pred, X_pred_proba) ==
    LET d1 == SetColumn(df, "Prediction", X_pred)
        d2 == SetColumn(d1, "Prediction_Label",
                        [r \in 1..Len(X_pred) |-> PredictionLabel(X_pred[r])])
        d3 == SetColumn(d2, "Confidence", X_pred_proba)
    IN  SetColumn(d3, "Risk_Level",
                  [r \in 1..Len(X_pred_proba) |-> RiskLevel(X_pred_proba[r])])

IsFraud(row) == row["Prediction"] = 1

\* df[df['Prediction'] == 1]: the positions of the rows kept, in their order.
FraudPositions(df) ==
    SelectSeq([r \in 1..NRows(df) |-> r], LAMBDA r : IsFraud(df.rows[r]))

\* app.py:126: df.loc[...,'Amount'] raises KeyError without an Amount column.
FraudLossRaises(df) == ~HasCol(df, "Amount")

\* app.py:126: df.loc[df['Prediction'] == 1, 'Amount'].sum()
FraudLossSaved(df) ==
    LET pos == FraudPositions(df)
    IN  SumSeq([k \in 1..Len(pos) |-> df.rows[pos[k]]["Amount"]])

TopN == 5

\* sort_values(by='Confidence', ascending=False) with the default
\* kind='quicksort', which is not a stable sort: every order of the positions
\* that is descending in Confidence is a possible result; rows of equal
\* Confidence come in whatever order the build's sort leaves them.
RECURSIVE SortOutcomes(_, _)
SortOutcomes(df, S) ==
    IF S = {} THEN {<<>>}
    ELSE UNION {{<<x>> \o rest : rest \in SortOutcomes(df, S \ {x})} :
                  x \in {y \in S : \A z \in S :
                            df.rows[y]["Confidence"] >= df.rows[z]["Confidence"]}}

\* .head(5)
HeadN(s, n) == SubSeq(s, 1, Min(n, Len(s)))

\* app.py:129: the rows of the possible top-risk tables, in display order.
TopRiskOutcomes(df) ==
    {[k \in 1..Len(HeadN(order, TopN)) |-> df.rows[order[k]]] :
        order \in SortOutcomes(df, Range(FraudPositions(df)))}

\* app.py:133: values = [sum(X_pred == 0), sum(X_pred == 1)]
PieValues(X_pred) ==
    <<Cardinality({r \in 1..Len(X_pred) : X_pred[r] = 0}),
      Cardinality({r \in 1..Len(X_pred) : X_pred[r] = 1})>>

\* app.py:175-180.  confusion_matrix takes its classes from the values seen
\* in either argument; px.imshow with x=labels, y=labels (two names) raises
\* unless the matrix is 2x2; roc_curve raises unless the true labels are
\* binary with values in {0, 1}.
EvaluationRaises(df, X_pred) ==
    \/ Cardinality(Range(Column(df, "Class")) \cup Range(X_pred)) # 2
    \/ \E r \in 1..NRows(df) : df.rows[r]["Class"] \notin {0, 1}

\* app.py:175: cm[actual][predicted], classes 0 and 1.
ConfusionMatrix(df, X_pred) ==
    [a \in {0, 1} |-> [p \in {0, 1} |->
        Cardinality({r \in 1..NRows(df) : df.rows[r]["Class"] = a /\ X_pred[r] = p})]]

\* app.py:194: pd.to_datetime(df['Time'], unit='s', errors='coerce')
ToDate(t) == IF t = Text THEN NaT ELSE t \div SecondsPerDay

WithDate(df) ==
    SetColumn(df, "Date", [r \in 1..NRows(df) |-> ToDate(df.rows[r]["Time"])])

ValidDates(df) == {df.rows[r]["Date"] : r \in 1..NRows(df)} \ {NaT}

\* app.py:196: set_index('Date').resample('D')['Prediction'].mean(): one bin
\* per calendar day from the first to the last Date; rows whose Date is NaT
\* are in no bin; a day without rows has count 0 (a NaN mean).
DayBin(df, d) ==
    LET rs == {r \in 1..NRows(df) : df.rows[r]["Date"] = d}
    IN  [Date |-> d,
         sum |-> Cardinality({r \in rs : df.rows[r]["Prediction"] = 1}),
         count |-> Cardinality(rs)]

Resample(df) ==
    LET ds == ValidDates(df)
        lo == CHOOSE d \in ds : \A e \in ds : d <= e
        hi == CHOOSE d \in ds : \A e \in ds : d >= e
    IN  IF ds = {} THEN <<>>
        ELSE [k \in 1..(hi - lo + 1) |-> DayBin(df, lo + k - 1)]

\* app.py:221-235: the error panel names the columns of df if df was read.
ErrorPanel(cols) == [kind |-> "error", actual_cols |-> cols]

\* app.py:238
EmptyDiv == [kind |-> "empty"]

\* app.py:143-219, after scoring: every result the handler can return for
\* the annotated table df.
Elements(df, X_pred) ==
    IF FraudLossRaises(df) THEN {ErrorPanel(df.columns)}
    ELSE IF HasCol(df, "Class") /\ EvaluationRaises(df, X_pred)
    THEN {ErrorPanel(df.columns)}
    ELSE
      LET timed == HasCol(df, "Time")
          final == IF timed THEN WithDate(df) ELSE df
          \* resample over an index that holds no date at all is left to
          \* the pandas build: it raises, or it yields an empty series.
          undated == timed /\ ValidDates(final) = {}
      IN  {[kind |-> "bundle",
            fraud_loss_saved |-> FraudLossSaved(df),
            table |-> df,
            top_risk |-> top,
            pie |-> PieValues(X_pred),
            evaluation |-> IF HasCol(df, "Class")
                           THEN <<ConfusionMatrix(df, X_pred)>> ELSE <<>>,
            trend |-> IF timed THEN <<Resample(final)>> ELSE <<>>,
            csv |-> final] : top \in TopRiskOutcomes(df)}
          \cup (IF undated THEN {ErrorPanel(final.columns)} ELSE {})

\* app.py:94-238: every result update_output can return for the upload.
\* An upload is absent (contents is None), or [readable, table]: readable is
\* whether decode and read_csv succeed on its bytes, table is what they yield.
UpdateOutputOutcomes(contents, m, sc, cols) ==
    IF ~contents.uploaded THEN {EmptyDiv}
    ELSE IF ~contents.readable THEN {ErrorPanel(<<>>)}
    ELSE
      LET df == FillMissing(contents.table, cols)
      IN  IF SelectRaises(df, cols) THEN {ErrorPanel(df.columns)}
          ELSE
            LET X_new == Select(df, cols)
            IN  IF TransformRaises(sc, X_new) THEN {ErrorPanel(df.columns)}
                ELSE
                  LET Xs == Transform(sc, X_new)
                      X_pred == Predict(m, Xs)
                  IN  Elements(Annotate(df, X_pred, PredictProba(m, Xs)), X_pred)

Uploads ==
    {[uploaded |-> FALSE], [uploaded |-> TRUE, readable |-> FALSE]}
    \cup {[uploaded |-> TRUE, readable |-> TRUE, table |-> t] : t \in Tables}

(***************************************************************************)
(* predict_csv, app.py:242-275.                                            *)
(***************************************************************************)
\* make_response(text, status)
TextResponse(text, status) == [status |-> status, kind |-> "text", text |-> text]

\* app.py:269-273
CsvResponse(df) ==
    [status |-> 200, kind |-> "csv", csv |-> df,
     headers |-> [k \in {"Content-Disposition", "Content-Type"} |->
                    IF k = "Content-Type" THEN "text/csv"
                    ELSE "attachment; filename=predictions.csv"]]

\* An exception that leaves the handler.
Unhandled == [status |-> 500, kind |-> "unhandled"]

\* The processing block without its try/except.
NoTryExcept(raises, result) == IF raises THEN Unhandled ELSE result

\* app.py:252, 274-275: try ... except Exception as e: make_response(..., 500)
TryExcept(raises, result) ==
    IF raises THEN TextResponse("Error processing file", 500) ELSE result

\* app.py:253-267 raises: read_csv, the column selection or the scaler.
ProcessingRaises(post, sc, cols) ==
    \/ ~post.readable
    \/ LET df == FillMissing(post.table, cols)
       IN  SelectRaises(df, cols) \/ TransformRaises(sc, Select(df, cols))

\* app.py:253-267: the table with Prediction and Confidence.
Processed(post, m, sc, cols) ==
    LET df == FillMissing(post.table, cols)
        Xs == Transform(sc, Select(df, cols))
    IN  SetColumn(SetColumn(df, "Prediction", Predict(m, Xs)),
                  "Confidence", PredictProba(m, Xs))

\* A post is the multipart form: whether it has a 'file' field, the
\* filename of that field, and what read_csv makes of the file.
PredictCsvResponse(post, m, sc, cols) ==
    IF ~post.has_file THEN TextResponse("No file part in the request", 400)
    ELSE IF post.filename = "" THEN TextResponse("No selected file", 400)
    ELSE TryExcept(ProcessingRaises(post, sc, cols),
                   CsvResponse(Processed(post, m, sc, cols)))

Posts ==
    {[has_file |-> FALSE]}
    \cup {[has_file |-> TRUE, filename |-> f, readable |-> FALSE] : f \in {"", "tx.csv"}}
    \cup {[has_file |-> TRUE, filename |-> f, readable |-> TRUE, table |-> t] :
            f \in {"", "tx.csv"}, t \in Tables}

(***************************************************************************)
(* The handlers as a state machine: one request is served at a time, each  *)
(* action is one whole call.                                               *)
(***************************************************************************)
NoRequest == [handler |-> "none"]

NoResponse == [kind |-> "none"]

LoadArtifacts ==
    \E a \in Artifacts :
        /\ model = a.model
        /\ scaler = a.scaler
        /\ expected_columns = a.expected_columns

Init ==
    /\ LoadArtifacts
    /\ request = NoRequest
    /\ response = NoResponse
    /\ frames = <<>>

UpdateOutput ==
    \E contents \in Uploads :
        /\ request = NoRequest
        /\ request' = [handler |-> "update_output", contents |-> contents]
        /\ response' \in UpdateOutputOutcomes(contents, model, scaler, expected_columns)
        /\ UNCHANGED <<model, scaler, expected_columns, frames>>

PredictCsv ==
    \E post \in Posts :
        /\ request = NoRequest
        /\ request' = [handler |-> "predict_csv", post |-> post]
        /\ response' = PredictCsvResponse(post, model, scaler, expected_columns)
        /\ UNCHANGED <<model, scaler, expected_columns, frames>>

\* The response has been sent; the server waits for the next request.
Reply ==
    /\ request # NoRequest
    /\ request' = NoRequest
    /\ response' = NoResponse
    /\ UNCHANGED <<model, scaler, expected_columns, frames>>

Next == UpdateOutput \/ PredictCsv \/ Reply

Spec == Init /\ [][Next]_vars

(***************************************************************************)
(* The risk tiers alone: pd.cut applied to an array of two probabilities,  *)
(* every probability from 0.00 to 1.00.                                    *)
(***************************************************************************)
Probabilities == 0..100

InitRisk ==
    /\ LoadArtifacts
    /\ request \in {[handler |-> "cut", X_pred_proba |-> <<p, q>>] :
                      p \in Probabilities, q \in Probabilities}
    /\ response = NoResponse
    /\ frames = <<>>

\* app.py:120-123
CutRiskLevel ==
    /\ response = NoResponse
    /\ response' = [kind |-> "risk",
                    Risk_Level |-> [i \in 1..Len(request.X_pred_proba) |->
                                      RiskLevel(request.X_pred_proba[i])]]
    /\ UNCHANGED <<model, scaler, expected_columns, request, frames>>

SpecRisk == InitRisk /\ [][CutRiskLevel]_vars

(***************************************************************************)
(* The reconciliation alone, as both handlers run it.                      *)
(***************************************************************************)
InitRecon ==
    /\ LoadArtifacts
    /\ request \in {[handler |-> h, table |-> t] :
                      h \in {"update_output", "predict_csv"}, t \in Tables}
    /\ response = NoResponse
    /\ frames = <<>>

Reconciled(t, cols) ==
    LET df == FillMissing(t, cols)
    IN  IF SelectRaises(df, cols) THEN [kind |-> "KeyError", df |-> df]
        ELSE [kind |-> "reconciled", df |-> df, X_new |-> Select(df, cols)]

\* app.py:101-107
ReconcileUpload ==
    /\ request.handler = "update_output"
    /\ response = NoResponse
    /\ response' = Reconciled(request.table, expected_columns)
    /\ UNCHANGED <<model, scaler, expected_columns, request, frames>>

\* app.py:255-260
ReconcilePost ==
    /\ request.handler = "predict_csv"
    /\ response = NoResponse
    /\ response' = Reconciled(request.table, expected_columns)
    /\ UNCHANGED <<model, scaler, expected_columns, request, frames>>

NextRecon == ReconcileUpload \/ ReconcilePost

SpecRecon == InitRecon /\ [][NextRecon]_vars

(***************************************************************************)
(* The top-risk ranking alone, over scored tables long enough for the cut  *)
(* at five rows to bite.                                                   *)
(***************************************************************************)
ScoredRows ==
    { [Amount |-> 50, Prediction |-> 0, Confidence |-> 20],
      [Amount |-> 50, Prediction |-> 1, Confidence |-> 70],
      [Amount |-> 50, Prediction |-> 1, Confidence |-> 90],
      [Amount |-> 100, Prediction |-> 1, Confidence |-> 90] }

ScoredTables ==
    {[columns |-> <<"Amount", "Prediction", "Confidence">>, rows |-> rs] :
        rs \in UNION {[1..n -> ScoredRows] : n \in 1..MaxScored}}

InitTop ==
    /\ LoadArtifacts
    /\ request \in {[handler |-> "top_risk", table |-> t] : t \in ScoredTables}
    /\ response = NoResponse
    /\ frames = <<>>

\* app.py:128-129
RankTopRisk ==
    /\ response = NoResponse
    /\ \E top \in TopRiskOutcomes(request.table) :
           response' = [kind |-> "top_risk", top_risk |-> top]
    /\ UNCHANGED <<model, scaler, expected_columns, request, frames>>

SpecTop == InitTop /\ [][RankTopRisk]_vars

(***************************************************************************)
(* Requests in flight together.  Flask serves each request on a thread;    *)
(* a handler's variables (df, X_new, X_pred, ...) are locals of the call,  *)
(* the artifacts are module globals.  frames[t] holds the locals of the    *)
(* call thread t is running; the steps of the threads interleave between   *)
(* statements.                                                             *)
(***************************************************************************)
Threads == {1, 2}

NoTable == [columns |-> <<>>, rows |-> <<>>]

IdleFrame ==
    [pc |-> "idle", handler |-> "none", input |-> NoRequest, df |-> NoTable,
     X_pred |-> <<>>, X_pred_proba |-> <<>>, result |-> NoResponse]

ConcTables ==
    {t \in Tables : NRows(t) = 1 /\ t.columns \in {<<"Time", "V1">>, <<"V2", "V1", "Amount">>}}

ConcUploads ==
    {[uploaded |-> FALSE], [uploaded |-> TRUE, readable |-> FALSE]}
    \cup {[uploaded |-> TRUE, readable |-> TRUE, table |-> t] : t \in ConcTables}

ConcPosts ==
    {[has_file |-> FALSE], [has_file |-> TRUE, filename |-> "", readable |-> FALSE]}
    \cup {[has_file |-> TRUE, filename |-> "tx.csv", readable |-> TRUE, table |-> t] :
            t \in ConcTables}

\* df as a module global: every call works on the same table.
GlobalDf(t) == 1

\* app.py:99, app.py:253: df is bound inside the call; each call has its own.
LocalDf(t) == t

InitConc ==
    /\ LoadArtifacts
    /\ request = NoRequest
    /\ response = NoResponse
    /\ frames = [t \in Threads |-> IdleFrame]

\* The framework calls a handler on thread t.
Dispatch(t) ==
    /\ frames[t].pc = "idle"
    /\ \E call \in {[handler |-> "update_output", input |-> u] : u \in ConcUploads}
                 \cup {[handler |-> "predict_csv", input |-> q] : q \in ConcPosts} :
           frames' = [frames EXCEPT ![t] =
                        [IdleFrame EXCEPT !.pc = "read",
                                          !.handler = call.handler,
                                          !.input = call.input]]
    /\ UNCHANGED <<model, scaler, expected_columns, request, response>>

Finished(t, result) ==
    frames' = [frames EXCEPT ![t].pc = "done", ![t].result = result]

\* app.py:95-99 and app.py:245-253: the checks before the table, and read_csv.
Read(t) ==
    /\ frames[t].pc = "read"
    /\ LET f == frames[t]
       IN  IF f.handler = "update_output"
           THEN IF ~f.input.uploaded THEN Finished(t, EmptyDiv)
                ELSE IF ~f.input.readable THEN Finished(t, ErrorPanel(<<>>))
                ELSE frames' = [frames EXCEPT ![LocalDf(t)].df = f.input.table,
                                              ![t].pc = "fill"]
           ELSE IF ~f.input.has_file
                THEN Finished(t, TextResponse("No file part in the request", 400))
                ELSE IF f.input.filename = ""
                THEN Finished(t, TextResponse("No selected file", 400))
                ELSE IF ~f.input.readable
                THEN Finished(t, TryExcept(TRUE, NoResponse))
                ELSE frames' = [frames EXCEPT ![LocalDf(t)].df = f.input.table,
                                              ![t].pc = "fill"]
    /\ UNCHANGED <<model, scaler, expected_columns, request, response>>

\* app.py:102-104 and app.py:256-258
Fill(t) ==
    /\ frames[t].pc = "fill"
    /\ frames' = [frames EXCEPT
                    ![LocalDf(t)].df = FillMissing(frames[LocalDf(t)].df, expected_columns),
                    ![t].pc = "score"]
    /\ UNCHANGED <<model, scaler, expected_columns, request, response>>

\* app.py:107-114 and app.py:260-264
ScoreRows(t) ==
    /\ frames[t].pc = "score"
    /\ LET f == frames[t]
           df == frames[LocalDf(t)].df
           raises == SelectRaises(df, expected_columns)
                     \/ TransformRaises(scaler, Select(df, expected_columns))
           Xs == Transform(scaler, Select(df, expected_columns))
       IN  IF raises
           THEN Finished(t, IF f.handler = "update_output" THEN ErrorPanel(df.columns)
                            ELSE TryExcept(TRUE, NoResponse))
           ELSE frames' = [frames EXCEPT ![t].X_pred = Predict(model, Xs),
                                         ![t].X_pred_proba = PredictProba(model, Xs),
                                         ![t].pc = "respond"]
    /\ UNCHANGED <<model, scaler, expected_columns, request, response>>

\* app.py:117-123 and app.py:266-267: the columns added to the call's table.
AddColumns(t) ==
    /\ frames[t].pc = "respond"
    /\ LET f == frames[t]
           df == frames[LocalDf(t)].df
       IN  frames' = [frames EXCEPT
                        ![LocalDf(t)].df =
                            IF f.handler = "update_output"
                            THEN Annotate(df, f.X_pred, f.X_pred_proba)
                            ELSE SetColumn(SetColumn(df, "Prediction", f.X_pred),
                                           "Confidence", f.X_pred_proba),
                        ![t].pc = "return"]
    /\ UNCHANGED <<model, scaler, expected_columns, request, response>>

\* app.py:125-219 and app.py:269-273
Respond(t) ==
    /\ frames[t].pc = "return"
    /\ LET f == frames[t]
           df == frames[LocalDf(t)].df
       IN  IF f.handler = "update_output"
           THEN \E result \in Elements(df, f.X_pred) :
                    frames' = [frames EXCEPT
                                 ![LocalDf(t)].df =
                                     IF result.kind = "bundle" THEN result.csv ELSE df,
                                 ![t].pc = "done",
                                 ![t].result = result]
           ELSE Finished(t, CsvResponse(df))
    /\ UNCHANGED <<model, scaler, expected_columns, request, response>>

\* The call returns; its locals are gone.
Return(t) ==
    /\ frames[t].pc = "done"
    /\ frames' = [frames EXCEPT ![t] = IdleFrame]
    /\ UNCHANGED <<model, scaler, expected_columns, request, response>>

NextConc ==
    \E t \in Threads :
        \/ Dispatch(t) \/ Read(t) \/ Fill(t) \/ ScoreRows(t)
        \/ AddColumns(t) \/ Respond(t) \/ Return(t)

SpecConc == InitConc /\ [][NextConc]_vars

(***************************************************************************)
(*                              THE CLAIMS                                 *)
(***************************************************************************)
Cut1Done == request.handler = "cut" /\ response.kind = "risk"

\* C1 as stated: the bands are closed on the left, [0, 0.5) Safe,
\* [0.5, 0.7) Low Risk, [0.7, 0.9) Medium Risk, [0.9, 1.0] High Risk, so that
\* exactly 0.5 is Low Risk, 0.7 Medium Risk and 0.9 High Risk.
C1_LeftClosedBands ==
    Cut1Done =>
        \A i \in 1..Len(request.X_pred_proba) :
            LET p == request.X_pred_proba[i]
                t == response.Risk_Level[i]
            IN  /\ (t = "Safe") <=> (0 <= p /\ p < 50)
                /\ (t = "Low Risk") <=> (50 <= p /\ p < 70)
                /\ (t = "Medium Risk") <=> (70 <= p /\ p < 90)
                /\ (t = "High Risk") <=> (90 <= p /\ p <= 100)

\* C1 as amended: the bands are closed on the right, [0, 0.5] Safe,
\* (0.5, 0.7] Low Risk, (0.7, 0.9] Medium Risk, (0.9, 1.0] High Risk, so that
\* exactly 0.5 is Safe, 0.7 Low Risk and 0.9 Medium Risk.
C1_RightClosedBands ==
    Cut1Done =>
        \A i \in 1..Len(request.X_pred_proba) :
            LET p == request.X_pred_proba[i]
                t == response.Risk_Level[i]
            IN  /\ (t = "Safe") <=> (0 <= p /\ p <= 50)
                /\ (t = "Low Risk") <=> (50 < p /\ p <= 70)
                /\ (t = "Medium Risk") <=> (70 < p /\ p <= 90)
                /\ (t = "High Risk") <=> (90 < p /\ p <= 100)

\* The tiers of 0.5 and of 0.7 have been computed.
C1_Witness ==
    /\ Cut1Done
    /\ request.X_pred_proba = <<50, 70>>
    /\ response.Risk_Level = <<"Safe", "Low Risk">>

TierRank(t) ==
    CASE t = "Safe" -> 1
      [] t = "Low Risk" -> 2
      [] t = "Medium Risk" -> 3
      [] t = "High Risk" -> 4
      [] OTHER -> 0

\* C2: every probability in [0, 1] gets one of the four tiers, never a
\* missing value; a larger probability never gets a lower tier; and a
\* probability exactly on 0.5, 0.7 or 0.9 is not in the band that the
\* boundary opens (0.5 is not Low Risk, 0.7 not Medium Risk, 0.9 not High
\* Risk).
C2_TotalMonotoneExclusive ==
    Cut1Done =>
        LET p == request.X_pred_proba[1]
            q == request.X_pred_proba[2]
            tp == response.Risk_Level[1]
            tq == response.Risk_Level[2]
        IN  /\ TierRank(tp) \in 1..4 /\ TierRank(tq) \in 1..4
            /\ p <= q => TierRank(tp) <= TierRank(tq)
            /\ p = 50 => tp # "Low Risk"
            /\ p = 70 => tp # "Medium Risk"
            /\ p = 90 => tp # "High Risk"

\* The tiers of 0.9 and of 1.0 have been computed, and they differ.
C2_Witness ==
    /\ Cut1Done
    /\ request.X_pred_proba = <<90, 100>>
    /\ response.Risk_Level = <<"Medium Risk", "High Risk">>

ReconDone == request.handler \in {"update_output", "predict_csv"}
             /\ response.kind \in {"reconciled", "KeyError"}

\* C5: in both handlers, after the reconciliation of any table, every
\* schema column the input lacked is 0 in every row, every column the input
\* had keeps its values, the matrix for the scaler has exactly the columns
\* of expected_columns in that order and holds the table's values for them,
\* and the columns outside the schema are still in the table but not in the
\* matrix.
C5_Reconciled ==
    ReconDone =>
        LET t == request.table
            had == Range(t.columns)
            schema == Range(expected_columns)
        IN  /\ response.kind = "reconciled"
            /\ NRows(response.df) = NRows(t)
            /\ Range(response.df.columns) = had \cup schema
            /\ \A r \in 1..NRows(t) :
                 /\ \A c \in schema \ had : response.df.rows[r][c] = 0
                 /\ \A c \in had : response.df.rows[r][c] = t.rows[r][c]
            /\ response.X_new.columns = expected_columns
            /\ \A r \in 1..NRows(t) :
                 /\ Len(response.X_new.rows[r]) = Len(expected_columns)
                 /\ \A i \in 1..Len(expected_columns) :
                      response.X_new.rows[r][i] = response.df.rows[r][expected_columns[i]]

\* predict_csv has reconciled a table that lacked V2 and listed its other
\* columns in another order than the schema, next to a column outside it.
C5_Witness ==
    /\ ReconDone
    /\ request.handler = "predict_csv"
    /\ request.table.columns = <<"V1", "Amount", "Class">>
    /\ expected_columns = <<"V1", "V2">>
    /\ response.kind = "reconciled"
    /\ response.df.columns = <<"V1", "Amount", "Class", "V2">>

RECURSIVE StableOrder(_, _)
\* The positions S in descending Confidence, the earlier position first
\* among equals: what a stable sort yields.
StableOrder(df, S) ==
    IF S = {} THEN <<>>
    ELSE LET x == CHOOSE y \in S : \A z \in S :
                      \/ df.rows[y]["Confidence"] > df.rows[z]["Confidence"]
                      \/ /\ df.rows[y]["Confidence"] = df.rows[z]["Confidence"]
                         /\ y <= z
         IN  <<x>> \o StableOrder(df, S \ {x})

StableTopRisk(df) ==
    LET order == HeadN(StableOrder(df, Range(FraudPositions(df))), 5)
    IN  [k \in 1..Len(order) |-> df.rows[order[k]]]

\* C6: the top-risk table holds only rows predicted fraudulent, exactly
\* min(5, number of such rows) of them, in descending Confidence, none of
\* them below an excluded fraudulent row, and rows of equal Confidence in
\* their original order, also across the cut at 5: it is the first five
\* rows of the stable descending sort.
C6_StableTopFive ==
    (request.handler = "top_risk" /\ response.kind = "top_risk") =>
        LET df == request.table
            top == response.top_risk
            nFraud == Len(FraudPositions(df))
        IN  /\ \A k \in 1..Len(top) : top[k]["Prediction"] = 1
            /\ Len(top) = Min(5, nFraud)
            /\ \A k \in 1..(Len(top) - 1) :
                 top[k]["Confidence"] >= top[k + 1]["Confidence"]
            /\ top = StableTopRisk(df)

\* update_output has answered an upload that read_csv could read.
Answered ==
    /\ request.handler = "update_output"
    /\ request.contents.uploaded
    /\ request.contents.readable

Uploaded == request.contents.table

\* A cell of a schema column of the upload is no number: the scaler fails.
NonNumericFeature(t) ==
    \E c \in Range(t.columns) \cap Range(expected_columns) :
        \E r \in 1..NRows(t) : t.rows[r][c] = Text

\* C3: the prevented loss is the sum of Amount over exactly the rows with
\* Prediction = 1 when the upload has an Amount column; when it has none
\* (and nothing else about the upload fails: its features are numeric, it
\* has no Class and no Time column), the estimate is zero and the request
\* returns the prediction results, not the error panel.
C3_PreventedLoss ==
    Answered =>
        /\ (HasCol(Uploaded, "Amount") /\ response.kind = "bundle") =>
              response.fraud_loss_saved =
                  SumSeq([r \in 1..NRows(response.table) |->
                            IF response.table.rows[r]["Prediction"] = 1
                            THEN response.table.rows[r]["Amount"] ELSE 0])
        /\ (/\ ~HasCol(Uploaded, "Amount")
            /\ ~NonNumericFeature(Uploaded)
            /\ ~HasCol(Uploaded, "Class")
            /\ ~HasCol(Uploaded, "Time")) =>
              (response.kind = "bundle" /\ response.fraud_loss_saved = 0)

\* The upload has a Class column with a value that is neither 0 nor 1.
MalformedClass(t) ==
    HasCol(t, "Class") /\ \E r \in 1..NRows(t) : t.rows[r]["Class"] \notin {0, 1}

\* The upload has a Time column and no row of it converts to a date.
NoDate(t) ==
    HasCol(t, "Time") /\ \A r \in 1..NRows(t) : t.rows[r]["Time"] = Text

\* C4: with a malformed Class column, or a trend that cannot be built, the
\* request (whose features are numeric and whose Amount is there) still
\* returns the results table, the prevented loss, the top-risk table and
\* the label distribution, and only the evaluation, or the trend, is left
\* out.
C4_OptionalOutputsDegrade ==
    (Answered /\ ~NonNumericFeature(Uploaded) /\ HasCol(Uploaded, "Amount")) =>
        /\ MalformedClass(Uploaded) =>
              (response.kind = "bundle" /\ response.evaluation = <<>>)
        /\ (NoDate(Uploaded) /\ ~HasCol(Uploaded, "Class")) =>
              (response.kind = "bundle" /\ response.trend = <<>>)

\* C8: an upload with neither Time nor Class (and numeric features) gets
\* the base results with no trend and no evaluation, and not the error
\* panel; a trend is returned only if the upload has Time, an evaluation
\* only if it has Class.
C8_BaseOutputsOnly ==
    (Answered /\ ~NonNumericFeature(Uploaded)) =>
        /\ (~HasCol(Uploaded, "Time") /\ ~HasCol(Uploaded, "Class")) =>
              /\ response.kind = "bundle"
              /\ response.trend = <<>>
              /\ response.evaluation = <<>>
        /\ (response.kind = "bundle" /\ response.trend # <<>>) =>
              HasCol(Uploaded, "Time")
        /\ (response.kind = "bundle" /\ response.evaluation # <<>>) =>
              HasCol(Uploaded, "Class")

\* Some Time value of the upload does not convert to a date.
SomeBadTime(t) ==
    HasCol(t, "Time") /\ \E r \in 1..NRows(t) : t.rows[r]["Time"] = Text

\* The days of the rows of t whose Time converts.
GoodDays(t) ==
    {t.rows[r]["Time"] \div SecondsPerDay :
        r \in {k \in 1..NRows(t) : t.rows[k]["Time"] # Text}}

\* The trend is what the convertible rows alone give: the days ascending,
\* each with the predictions of the convertible rows of that day.
TrendOfGoodRows(tr, scored) ==
    /\ \A k \in 1..(Len(tr) - 1) : tr[k].Date < tr[k + 1].Date
    /\ GoodDays(scored) \subseteq {tr[k].Date : k \in 1..Len(tr)}
    /\ \A k \in 1..Len(tr) :
         LET rs == {r \in 1..NRows(scored) :
                       /\ scored.rows[r]["Time"] # Text
                       /\ scored.rows[r]["Time"] \div SecondsPerDay = tr[k].Date}
         IN  /\ tr[k].count = Cardinality(rs)
             /\ tr[k].sum = Cardinality({r \in rs : scored.rows[r]["Prediction"] = 1})

\* C9: with a Time column some of whose values do not convert, the request
\* (whose other features are numeric, and which has no Class column) does
\* not abort; the trend is built from the convertible rows alone, and all
\* the rows are still in the results table and in the downloaded CSV.
C9_BadTimeRowsOnlyLeaveTrend ==
    (/\ Answered
     /\ SomeBadTime(Uploaded)
     /\ ~HasCol(Uploaded, "Class")
     /\ "Time" \notin Range(expected_columns)) =>
        /\ response.kind = "bundle"
        /\ response.trend # <<>>
        /\ TrendOfGoodRows(response.trend[1], response.table)
        /\ NRows(response.table) = NRows(Uploaded)
        /\ NRows(response.csv) = NRows(Uploaded)

Posted == request.handler = "predict_csv"

\* Reading or scoring the posted file fails.
PostFails(post) ==
    \/ ~post.readable
    \/ NonNumericFeature(post.table)

\* C7: every call of predict_csv ends in exactly one of: 400 when the
\* 'file' field is missing or no file is selected; 500 with a plain-text
\* message when reading, reconciling or scoring raises; 200 otherwise, with
\* a Content-Disposition attachment header and a CSV that has the
\* Prediction and Confidence columns.  No exception leaves the handler.
C7_ThreeOutcomes ==
    Posted =>
        LET post == request.post
            rejected == ~post.has_file \/ post.filename = ""
        IN  /\ response.kind # "unhandled"
            /\ response.status \in {200, 400, 500}
            /\ (response.status = 400) <=> rejected
            /\ (response.status = 500) <=> (~rejected /\ PostFails(post))
            /\ response.status \in {400, 500} => response.kind = "text"
            /\ response.status = 200 =>
                  /\ response.kind = "csv"
                  /\ response.headers["Content-Disposition"]
                        = "attachment; filename=predictions.csv"
                  /\ HasCol(response.csv, "Prediction")
                  /\ HasCol(response.csv, "Confidence")
                  /\ NRows(response.csv) = NRows(post.table)

\* A readable file whose Time feature holds text was posted and answered
\* with 500 and a text message.
C7_Witness ==
    /\ Posted
    /\ request.post.has_file
    /\ request.post.filename # ""
    /\ request.post.readable
    /\ response.status = 500
    /\ response.kind = "text"

\* What the call of frame f returns when it is the only call running.
AloneOutcomes(f) ==
    IF f.handler = "update_output"
    THEN UpdateOutputOutcomes(f.input, model, scaler, expected_columns)
    ELSE {PredictCsvResponse(f.input, model, scaler, expected_columns)}

\* C10: however the steps of concurrent update_output and predict_csv calls
\* interleave, no step modifies model, scaler or expected_columns, a step
\* changes the locals of one call only, and what a call returns is what it
\* returns for its own input when run alone.
C10_RequestsIndependent ==
    /\ [](\A t \in Threads :
            frames[t].pc = "done" => frames[t].result \in AloneOutcomes(frames[t]))
    /\ [][/\ UNCHANGED <<model, scaler, expected_columns>>
          /\ \A t \in Threads : \A u \in Threads \ {t} :
                frames'[t] = frames[t] \/ frames'[u] = frames[u]]_vars

\* An update_output call has returned its bundle while a predict_csv call
\* on another table has filled its missing columns and is about to score.
C10_Witness ==
    /\ DOMAIN frames = Threads
    /\ frames[1].pc = "done"
    /\ frames[1].handler = "update_output"
    /\ frames[1].result.kind = "bundle"
    /\ frames[2].pc = "score"
    /\ frames[2].handler = "predict_csv"
    /\ frames[2].df.columns # frames[1].input.table.columns

====
